---- MODULE Spec2Model ----
(***************************************************************************)
(* State-machine model of the news-portal client: the sign-in and sign-up  *)
(* forms (Registration.tsx), the site header (part_000), the basic         *)
(* settings page (basic-settings/page.tsx) and the paste handling of the   *)
(* rich-text editor (RichTextEditor.tsx).                                  *)
(*                                                                         *)
(* An async handler is two actions: the part before its await (validation  *)
(* and the request), and the continuation that runs when the response      *)
(* arrives.  Requests in flight are the sequence net; the service answers  *)
(* them in any order.  An optional value is a sequence of length 0 or 1.   *)
(* Text that the code inspects character by character (email, password)    *)
(* is a sequence of one-character strings.                                 *)
(***************************************************************************)
EXTENDS Integers, Sequences, FiniteSets, TLC

VARIABLES
    screen,        \* the page that is mounted
    signIn,        \* SignIn component state
    signUp,        \* SignUp component state
    localStorage,  \* window.localStorage, a function on the keys present
    axiosHeaders,  \* axiosInstance.defaults.headers.common
    header,        \* Header component state
    page,          \* BasicSettings component state
    net,           \* requests in flight
    timers,        \* pending setTimeout callbacks
    editor,        \* RichTextEditor: editable region, caret, content held by the caller
    clipboard,     \* the clipboard payload of the paste event
    last           \* the handler that ran last, with its outcome

vars == <<screen, signIn, signUp, localStorage, axiosHeaders, header, page,
          net, timers, editor, clipboard, last>>

----------------------------------------------------------------------------
(* Bounds *)

MaxInFlight == 1
MaxSubmits == 2
MaxTimers == 1
MaxDismissals == 2
MaxDrops == 2
MaxEmailLen == 4
MaxTokens == 4
MaxDom == 2
MaxOps == 4

----------------------------------------------------------------------------
(* Values *)

None == <<>>
Some(v) == <<v>>

ValidEmail == <<"a", "@", "b", ".", "c">>
NotAnEmail == <<"n", "o", "t", "-", "a", "n", "-", "e", "m", "a", "i", "l">>

\* values an input event can put into an email field
EmailInputs == {<<>>, ValidEmail, NotAnEmail}

EmailAlphabet == {"a", "@", ".", " "}

RECURSIVE StringsUpTo(_, _)
StringsUpTo(alphabet, n) ==
    IF n = 0 THEN {<<>>}
    ELSE LET shorter == StringsUpTo(alphabet, n - 1)
         IN  shorter \cup {Append(s, c) : s \in shorter, c \in alphabet}

ShortPassword == <<"1", "2", "3", "4", "5">>
GoodPassword == <<"1", "2", "3", "4", "5", "6">>
OtherPassword == <<"6", "5", "4", "3", "2", "1">>
PasswordInputs == {<<>>, ShortPassword, GoodPassword}
ConfirmInputs == {GoodPassword, OtherPassword}

NameInputs == {"", "Ann"}

\* the accounts of the user-account service and the token it issues to each
Users ==
    {[id |-> 1, name |-> "Ann", email |-> ValidEmail, role |-> "admin"],
     [id |-> 2, name |-> "Bob", email |-> ValidEmail, role |-> "user"]}
TokenOf(u) == IF u.role = "admin" THEN "tokA" ELSE "tokB"

ServiceMessages == {"Invalid credentials"}

\* an HTTP answer: status, envelope {success, message} and optional payloads
HttpStatuses == {200, 401}

----------------------------------------------------------------------------
(* Browser and library primitives used by the components *)

\* localStorage.getItem / setItem / removeItem
getItem(ls, k) == IF k \in DOMAIN ls THEN Some(ls[k]) ELSE None
setItem(ls, k, v) == [x \in (DOMAIN ls) \cup {k} |-> IF x = k THEN v ELSE ls[x]]
removeItem(ls, k) == [x \in (DOMAIN ls) \ {k} |-> ls[x]]

\* JSON.stringify of a user record: its members in property order
UserKeys == <<"id", "name", "email", "role">>
JSONstringify(u) == [i \in 1..Len(UserKeys) |-> <<UserKeys[i], u[UserKeys[i]]>>]
\* JSON.parse: the object with the members of the text
JSONparse(s) ==
    [k \in {s[i][1] : i \in DOMAIN s} |->
        \* a repeated member: the last one wins
        s[CHOOSE i \in DOMAIN s : s[i][1] = k /\ \A j \in DOMAIN s : s[j][1] = k => j <= i][2]]

\* axios resolves a 2xx answer and rejects every other one
AxiosResolves(resp) == resp.kind = "http" /\ resp.status >= 200 /\ resp.status < 300

\* a request as axiosInstance sends it: the default headers go with it
Request(form, method, url, body, closure) ==
    [form |-> form, method |-> method, url |-> url, body |-> body,
     headers |-> axiosHeaders, closure |-> closure, mounted |-> TRUE]

RemoveAt(s, i) == SubSeq(s, 1, i - 1) \o SubSeq(s, i + 1, Len(s))

----------------------------------------------------------------------------
(* Sign-in and sign-up forms: Registration.tsx *)

IsSpace(c) == c = " "

\* [^\s@]+ on s[a..b]
NoSpaceNoAt(s, a, b) == a <= b /\ \A i \in a..b : ~IsSpace(s[i]) /\ s[i] # "@"

\* a pattern that asks for the "@" only: /^[^\s@]+@[^\s@]+$/
MutantEmailRegexTest(s) ==
    \E i \in 1..Len(s) :
        /\ s[i] = "@"
        /\ NoSpaceNoAt(s, 1, i - 1)
        /\ NoSpaceNoAt(s, i + 1, Len(s))

\* /^[^\s@]+@[^\s@]+\.[^\s@]+$/.test(s)
emailRegexTest(s) ==
    \E i \in 1..Len(s), j \in 1..Len(s) :
        /\ i < j
        /\ s[i] = "@"
        /\ s[j] = "."
        /\ NoSpaceNoAt(s, 1, i - 1)
        /\ NoSpaceNoAt(s, i + 1, j - 1)
        /\ NoSpaceNoAt(s, j + 1, Len(s))

MinPasswordLength == 6

\* a form whose submit button is enabled even while its request is in flight
MutantSubmitEnabled(busy) == TRUE

\* disabled={loading}, disabled={saving}: the submit button and the inputs of a form
\* are disabled while its request is in flight, so the form cannot be submitted
SubmitEnabled(busy) == ~busy

SignInInit ==
    [formData |-> [email |-> <<>>, password |-> <<>>],
     loading |-> FALSE, error |-> "", success |-> ""]

\* a registration form that starts with another role
MutantSignUpInit ==
    [formData |-> [name |-> "", email |-> <<>>, password |-> <<>>,
                   confirmPassword |-> <<>>, role |-> "admin"],
     loading |-> FALSE, error |-> "", success |-> ""]

SignUpInit ==
    [formData |-> [name |-> "", email |-> <<>>, password |-> <<>>,
                   confirmPassword |-> <<>>, role |-> "user"],
     loading |-> FALSE, error |-> "", success |-> ""]

\* the answers of the user-account service
Http(status, success, message, token, user) ==
    [kind |-> "http", status |-> status, success |-> success, message |-> message,
     token |-> token, user |-> user]
NetworkError ==
    [kind |-> "network", status |-> 0, success |-> FALSE, message |-> None,
     token |-> None, user |-> None]
FailureAnswers ==
    {Http(st, FALSE, m, None, None) :
        st \in HttpStatuses, m \in {Some(x) : x \in ServiceMessages} \cup {None}}
LoginResponses ==
    {Http(200, TRUE, Some("Login successful"), Some(TokenOf(u)), Some(u)) : u \in Users}
        \cup FailureAnswers \cup {NetworkError}
RegistrationResponses ==
    {Http(200, TRUE, Some("User registered"), None, None)}
        \cup FailureAnswers \cup {NetworkError}

\* a || b on an optional string: the left one unless it is absent or empty
OrElse(m, fallback) == IF m = None \/ m = Some("") THEN fallback ELSE m[1]

\* the header built from a member the answer does not have
MutantBearer(t) == <<"Bearer ", "undefined">>

\* the template literal `Bearer ${token}`
Bearer(t) == <<"Bearer ", t>>

\* setState on a component that has been unmounted changes nothing
Orphaned(s) == [i \in DOMAIN s |-> [s[i] EXCEPT !.mounted = FALSE]]

\* the record of the handler that ran last: its outcome, its argument if it has one
\* and, for the continuation of a request, the answer it processed; n counts the
\* steps of an editing session
Event(op, outcome) ==
    [op |-> op, outcome |-> outcome, arg |-> None, resp |-> None, n |-> 0]
Called(op, outcome, arg) ==
    [op |-> op, outcome |-> outcome, arg |-> Some(arg), resp |-> None, n |-> 0]
Answered(op, outcome, resp) ==
    [op |-> op, outcome |-> outcome, arg |-> None, resp |-> Some(resp), n |-> 0]
\* the envelope of an answer, without its payload
Envelope(resp) ==
    [kind |-> resp.kind, status |-> resp.status, success |-> resp.success,
     message |-> resp.message]

PageInit ==
    [settings |-> [id |-> None, site_name |-> "", logo_url |-> "", favicon_url |-> ""],
     loading |-> TRUE, saving |-> FALSE, error |-> "", success |-> "",
     uploading |-> [logo |-> FALSE, favicon |-> FALSE]]

\* useEffect(() => { fetchSettings(); }, []) up to its await
fetchSettings == Request("fetch", "GET", <<"/basic-settings">>, None, None)

\* router.push(s): the page that is left is unmounted, the new one mounted
RouterPush(s, requests, pending) ==
    IF s = screen
    THEN /\ UNCHANGED <<screen, signIn, signUp, page>>
         /\ net' = requests
         /\ timers' = pending
    ELSE /\ screen' = s
         /\ signIn' = SignInInit
         /\ signUp' = SignUpInit
         /\ page' = PageInit
         /\ net' = IF s = "basicSettings"
                   THEN Append(Orphaned(requests), fetchSettings)
                   ELSE Orphaned(requests)
         /\ timers' = Orphaned(pending)

\* the user follows a link to another page
Navigate(s) ==
    /\ s # screen
    /\ s = "basicSettings" => Len(net) < MaxInFlight
    /\ RouterPush(s, net, timers)
    /\ last' = Event("Navigate", s)
    /\ UNCHANGED <<localStorage, axiosHeaders, header, editor, clipboard>>

SetTimeout(fn, delay) == [fn |-> fn, delay |-> delay, mounted |-> TRUE]

RegistrationRedirectDelay == 2000
\* a login that redirects after the delay of the registration
MutantLoginRedirectDelay == RegistrationRedirectDelay
LoginRedirectDelay == 1500

\* the timer of a successful login or registration fires: router.push("/")
RedirectTimerFires(i) ==
    /\ i \in DOMAIN timers
    /\ timers[i].fn = "routerPushHome"
    /\ RouterPush("home", net, RemoveAt(timers, i))
    /\ last' = Event("timer", timers[i].fn)
    /\ UNCHANGED <<localStorage, axiosHeaders, header, editor, clipboard>>

\* the timer of a success message of the settings page fires: setSuccess("").
\* These timers have one delay, so they fire in the order they were set.
SuccessTimerFires(i) ==
    /\ i \in DOMAIN timers
    /\ timers[i].fn = "clearSuccess"
    /\ \A j \in 1..(i - 1) : timers[j].fn # "clearSuccess"
    /\ timers' = RemoveAt(timers, i)
    /\ page' = IF timers[i].mounted THEN [page EXCEPT !.success = ""] ELSE page
    /\ last' = Event("timer", timers[i].fn)
    /\ UNCHANGED <<screen, signIn, signUp, net, localStorage, axiosHeaders, header,
                   editor, clipboard>>

(* ---- SignIn ---- *)

SignInHandleChange(name, value) ==
    /\ screen = "signIn"
    /\ ~signIn.loading                     \* the inputs are disabled while loading
    /\ signIn' = [signIn EXCEPT !.formData[name] = value, !.error = ""]
    /\ last' = Event("SignIn.handleChange", name)
    /\ UNCHANGED <<screen, signUp, localStorage, axiosHeaders, header, page, net,
                   timers, editor, clipboard>>

\* the validation of handleLogin: the message it sets, "" when the form passes
LoginValidation(fd) ==
    IF fd.email = <<>> \/ fd.password = <<>> THEN "Email and password are required"
    ELSE IF ~emailRegexTest(fd.email) THEN "Please enter a valid email address"
    ELSE ""

\* handleLogin up to its await
handleLogin ==
    /\ screen = "signIn"
    /\ SubmitEnabled(signIn.loading)
    /\ LET fd == signIn.formData
           msg == LoginValidation(fd)
       IN  IF msg # ""
           THEN /\ signIn' = [signIn EXCEPT !.error = msg]
                /\ last' = Event("handleLogin", "rejected")
                /\ UNCHANGED net
           ELSE /\ Len(net) < MaxSubmits
                /\ signIn' = [signIn EXCEPT !.loading = TRUE, !.error = "", !.success = ""]
                /\ net' = Append(net, Request("login", "POST", <<"/users/login">>,
                                     [email |-> fd.email, password |-> fd.password], None))
                /\ last' = Event("handleLogin", "sent")
    /\ UNCHANGED <<screen, signUp, localStorage, axiosHeaders, header, page, timers,
                   editor, clipboard>>

\* the catch block of handleLogin
LoginCatch(resp) ==
    IF resp.kind = "http"
    THEN IF resp.message # None THEN resp.message[1]
         ELSE "Login failed. Please try again."
    ELSE "No response from server. Please check your connection."

\* localStorage.setItem("token", ...); localStorage.setItem("user", JSON.stringify(...))
\* a login that persists the token alone
MutantSaveSession(ls, token, user) == setItem(ls, "token", token)

SaveSession(ls, token, user) ==
    setItem(setItem(ls, "token", token), "user", JSONstringify(user))

\* a failure path that also empties the form
MutantSignInFailed(si, resp) ==
    [si EXCEPT !.loading = FALSE, !.error = LoginCatch(resp),
               !.formData = [email |-> <<>>, password |-> <<>>]]

\* a failure path without the finally block
MutantSignInStaysBusy(si, resp) ==
    IF AxiosResolves(resp) THEN si ELSE [si EXCEPT !.error = LoginCatch(resp)]

\* handleLogin after an answer that is not a success: nothing but the catch block
\* and finally
SignInFailed(si, resp) ==
    IF AxiosResolves(resp) THEN [si EXCEPT !.loading = FALSE]
    ELSE [si EXCEPT !.loading = FALSE, !.error = LoginCatch(resp)]

\* handleLogin from its await on: the answer to request i arrives
handleLoginResponse(i, resp) ==
    /\ i \in DOMAIN net
    /\ net[i].form = "login"
    /\ resp \in LoginResponses
    /\ LET m == net[i].mounted
           ok == AxiosResolves(resp) /\ resp.success
       IN  /\ IF ok
              THEN /\ Len(timers) < MaxTimers
                   /\ localStorage' = SaveSession(localStorage, resp.token[1], resp.user[1])
                   /\ axiosHeaders' = setItem(axiosHeaders, "Authorization",
                                              Bearer(resp.token[1]))
                   /\ timers' = Append(timers, SetTimeout("routerPushHome", LoginRedirectDelay))
                   /\ signIn' = IF m THEN [signIn EXCEPT
                                              !.success = "Login successful! Redirecting...",
                                              !.formData = [email |-> <<>>, password |-> <<>>],
                                              !.loading = FALSE]
                                ELSE signIn
              ELSE /\ UNCHANGED <<localStorage, axiosHeaders, timers>>
                   /\ signIn' = IF m THEN SignInFailed(signIn, resp) ELSE signIn
           /\ last' = Answered("handleLogin",
                               IF ok THEN "success" ELSE "failed", resp)
    /\ net' = RemoveAt(net, i)
    /\ UNCHANGED <<screen, signUp, header, page, editor, clipboard>>

(* ---- SignUp ---- *)

SignUpHandleChange(name, value) ==
    /\ screen = "signUp"
    /\ ~signUp.loading
    /\ signUp' = [signUp EXCEPT !.formData[name] = value, !.error = ""]
    /\ last' = Event("SignUp.handleChange", name)
    /\ UNCHANGED <<screen, signIn, localStorage, axiosHeaders, header, page, net,
                   timers, editor, clipboard>>

\* the validation without the comparison of the two passwords
MutantRegistrationValidation(fd) ==
    IF fd.name = "" \/ fd.email = <<>> \/ fd.password = <<>> THEN "All fields are required"
    ELSE IF ~emailRegexTest(fd.email) THEN "Please enter a valid email address"
    ELSE IF Len(fd.password) < MinPasswordLength
         THEN "Password must be at least 6 characters long"
    ELSE ""

\* the validation of handleRegistration: the message it sets, "" when the form passes
RegistrationValidation(fd) ==
    IF fd.name = "" \/ fd.email = <<>> \/ fd.password = <<>> THEN "All fields are required"
    ELSE IF ~emailRegexTest(fd.email) THEN "Please enter a valid email address"
    ELSE IF Len(fd.password) < MinPasswordLength
         THEN "Password must be at least 6 characters long"
    ELSE IF fd.password # fd.confirmPassword THEN "Passwords do not match"
    ELSE ""

\* handleRegistration up to its await
handleRegistration ==
    /\ screen = "signUp"
    /\ SubmitEnabled(signUp.loading)
    /\ LET fd == signUp.formData
           msg == RegistrationValidation(fd)
       IN  IF msg # ""
           THEN /\ signUp' = [signUp EXCEPT !.error = msg]
                /\ last' = Event("handleRegistration", "rejected")
                /\ UNCHANGED net
           ELSE /\ Len(net) < MaxSubmits
                /\ signUp' = [signUp EXCEPT !.loading = TRUE, !.error = "", !.success = ""]
                /\ net' = Append(net, Request("registration", "POST", <<"/users/registration">>,
                                     [name |-> fd.name, email |-> fd.email,
                                      password |-> fd.password, role |-> fd.role], None))
                /\ last' = Event("handleRegistration", "sent")
    /\ UNCHANGED <<screen, signIn, localStorage, axiosHeaders, header, page, timers,
                   editor, clipboard>>

\* the catch block of handleRegistration (every rejection of axios is an AxiosError)
RegistrationCatch(resp) == OrElse(resp.message, "Registration failed")

\* a registration that signs the new user in, as the login does
MutantHandleRegistrationResponse(i, resp) ==
    /\ i \in DOMAIN net
    /\ net[i].form = "registration"
    /\ resp \in RegistrationResponses
    /\ LET ok == AxiosResolves(resp) /\ resp.success
       IN  /\ IF ok
              THEN /\ Len(timers) < MaxTimers
                   /\ timers' = Append(timers,
                                       SetTimeout("routerPushHome", RegistrationRedirectDelay))
                   /\ localStorage' = setItem(localStorage, "token", "tokNew")
              ELSE UNCHANGED <<timers, localStorage>>
           /\ signUp' = [signUp EXCEPT !.loading = FALSE]
           /\ last' = Answered("handleRegistration",
                               IF ok THEN "success" ELSE "failed", resp)
    /\ net' = RemoveAt(net, i)
    /\ UNCHANGED <<screen, signIn, axiosHeaders, header, page, editor, clipboard>>

\* handleRegistration from its await on
handleRegistrationResponse(i, resp) ==
    /\ i \in DOMAIN net
    /\ net[i].form = "registration"
    /\ resp \in RegistrationResponses
    /\ LET m == net[i].mounted
           ok == AxiosResolves(resp) /\ resp.success
       IN  /\ IF ok
              THEN /\ Len(timers) < MaxTimers
                   /\ timers' = Append(timers,
                                       SetTimeout("routerPushHome", RegistrationRedirectDelay))
                   /\ signUp' = IF m THEN [signUp EXCEPT
                                    !.success = "Registration successful! Redirecting to login...",
                                    !.formData = SignUpInit.formData,
                                    !.loading = FALSE]
                                ELSE signUp
              ELSE /\ UNCHANGED timers
                   /\ signUp' = IF ~m THEN signUp
                                ELSE IF AxiosResolves(resp)
                                THEN [signUp EXCEPT !.loading = FALSE]
                                ELSE [signUp EXCEPT !.loading = FALSE,
                                                    !.error = RegistrationCatch(resp)]
           /\ last' = Answered("handleRegistration",
                               IF ok THEN "success" ELSE "failed", resp)
    /\ net' = RemoveAt(net, i)
    /\ UNCHANGED <<screen, signIn, localStorage, axiosHeaders, header, page,
                   editor, clipboard>>

----------------------------------------------------------------------------
(* Site header: part_000 *)

HeaderInit ==
    [isLoggedIn |-> FALSE, user |-> None, showUserMenu |-> FALSE, isOpen |-> FALSE]

\* a header that takes the token alone for a session
MutantLoginStatusEffect(h, ls) ==
    IF getItem(ls, "token") # None
    THEN [h EXCEPT !.isLoggedIn = TRUE,
                   !.user = IF getItem(ls, "user") # None
                            THEN Some(JSONparse(getItem(ls, "user")[1])) ELSE None]
    ELSE h

\* the login-status effect, run once when the header mounts
LoginStatusEffect(h, ls) ==
    LET token == getItem(ls, "token")
        userData == getItem(ls, "user")
    IN  IF token # None /\ token # Some("") /\ userData # None /\ userData # Some(<<>>)
        THEN [h EXCEPT !.isLoggedIn = TRUE, !.user = Some(JSONparse(userData[1]))]
        ELSE h

\* a fresh mount of the header
HeaderMount ==
    /\ header' = LoginStatusEffect(HeaderInit, localStorage)
    /\ last' = Event("Header.mount", "")
    /\ UNCHANGED <<screen, signIn, signUp, localStorage, axiosHeaders, page, net,
                   timers, editor, clipboard>>

\* the user-menu button, rendered only when logged in
ToggleUserMenu ==
    /\ header.isLoggedIn
    /\ header' = [header EXCEPT !.showUserMenu = ~header.showUserMenu]
    /\ last' = Event("Header.toggleUserMenu", "")
    /\ UNCHANGED <<screen, signIn, signUp, localStorage, axiosHeaders, page, net,
                   timers, editor, clipboard>>

\* the mobile menu button
ToggleMobileMenu ==
    /\ header' = [header EXCEPT !.isOpen = ~header.isOpen]
    /\ last' = Event("Header.toggleMobileMenu", "")
    /\ UNCHANGED <<screen, signIn, signUp, localStorage, axiosHeaders, page, net,
                   timers, editor, clipboard>>

adminMenuItems == {"Dashboard"}
userMenuItems == {"Profile", "Saved News", "Reading List"}

\* user?.role === "admin"
IsAdmin(h) == h.user # None /\ h.user[1].role = "admin"

\* a header that shows the admin items to whoever is logged in
MutantAccountEntries(h) == userMenuItems \cup adminMenuItems \cup {"Logout"}

\* the entries of an account menu: the regular items, the admin items under their
\* gate, the logout button
AccountEntries(h) ==
    userMenuItems \cup (IF IsAdmin(h) THEN adminMenuItems ELSE {}) \cup {"Logout"}

\* the drop-down of the user button: isLoggedIn ? ... showUserMenu && ...
DesktopMenu(h) == IF h.isLoggedIn /\ h.showUserMenu THEN AccountEntries(h) ELSE {}

\* the account part of the mobile menu: isOpen && ... isLoggedIn && ...
MobileMenu(h) == IF h.isOpen /\ h.isLoggedIn THEN AccountEntries(h) ELSE {}

\* the logout button is in the open user menu and in the open mobile menu of a
\* logged-in header
LogoutPresented(h) == h.isLoggedIn /\ (h.showUserMenu \/ h.isOpen)

\* a logout that forgets the user record
MutantClearSession(ls) == removeItem(ls, "token")

\* localStorage.removeItem("token"); localStorage.removeItem("user")
ClearSession(ls) == removeItem(removeItem(ls, "token"), "user")

handleLogout ==
    /\ LogoutPresented(header)
    /\ localStorage' = ClearSession(localStorage)
    /\ header' = [header EXCEPT !.isLoggedIn = FALSE, !.user = None,
                                !.showUserMenu = FALSE]
    /\ RouterPush("home", net, timers)
    /\ last' = Event("handleLogout", "")
    /\ UNCHANGED <<axiosHeaders, editor, clipboard>>

----------------------------------------------------------------------------
(* Basic settings page: basic-settings/page.tsx *)

UploadTypes == {"logo", "favicon"}

\* an allow-list that lets bitmaps through
MutantValidTypes ==
    {"image/jpeg", "image/jpg", "image/png", "image/gif", "image/webp",
     "image/svg+xml", "image/x-icon", "image/bmp"}

validTypes ==
    {"image/jpeg", "image/jpg", "image/png", "image/gif", "image/webp",
     "image/svg+xml", "image/x-icon"}

\* MIME types of picked or dropped files that are no web image
OtherTypes == {"image/bmp", "application/pdf", "IMAGE/PNG", ""}

\* one ceiling for both fields
MutantMaxSize(type) == 2 * 1024 * 1024

\* maxSize of handleFileUpload
maxSize(type) == IF type = "logo" THEN 2 * 1024 * 1024 ELSE 1 * 1024 * 1024

FileSizes ==
    {maxSize("favicon"), maxSize("favicon") + 1, maxSize("logo"), maxSize("logo") + 1}

\* the files of the upload checks: two allowed types and every other type at one
\* size, and one type of either kind at every size
Files ==
    [type : {"image/png", "image/x-icon"} \cup OtherTypes, size : {maxSize("favicon")}]
      \cup [type : {"image/png", "application/pdf"}, size : FileSizes]

\* the files the user picks or drops on the settings page: a small favicon, a PDF
\* and an image over both ceilings
PickedFiles ==
    {[type |-> "image/png", size |-> maxSize("favicon")],
     [type |-> "application/pdf", size |-> maxSize("favicon")],
     [type |-> "image/png", size |-> maxSize("logo") + 1]}

UrlField(type) == IF type = "logo" THEN "logo_url" ELSE "favicon_url"

InvalidTypeMessage ==
    "Invalid file type. Please upload: jpeg, jpg, png, gif, webp, svg+xml, x-icon"
TooLargeMessage(type) ==
    IF type = "logo" THEN "File size too large. Maximum 2MB allowed."
    ELSE "File size too large. Maximum 1MB allowed."
UploadedMessage(type) ==
    IF type = "logo" THEN "Logo uploaded successfully!" ELSE "Favicon uploaded successfully!"

SuccessDismissDelay == 3000

\* identifiers the configuration service hands out
ServiceIds == {0, 7}

\* if (settings.id): an absent identifier and the number 0 are falsy
Truthy(id) == id # None /\ id # Some(0)

\* the answers of the configuration service
SettingsHttp(status, success, message, data) ==
    [kind |-> "http", status |-> status, success |-> success, message |-> message,
     data |-> data]
SettingsNetworkError ==
    [kind |-> "network", status |-> 0, success |-> FALSE, message |-> None, data |-> None]
SettingsFailures ==
    {SettingsHttp(st, FALSE, m, None) :
        st \in HttpStatuses, m \in {Some(x) : x \in ServiceMessages} \cup {None}}

\* the record the service holds after a request with this body, under identifier n
Stored(body, n) == [body EXCEPT !.id = Some(n)]

FetchResponses ==
    {SettingsHttp(200, TRUE, Some("OK"),
                  Some([PageInit.settings EXCEPT !.id = Some(n), !.site_name = "Daily"])) :
        n \in ServiceIds}
      \cup {SettingsHttp(200, TRUE, Some("No settings yet"), None)}
      \cup SettingsFailures \cup {SettingsNetworkError}

SaveResponses(req) ==
    {SettingsHttp(200, TRUE, Some("Saved"), Some(Stored(req.body, n))) :
        n \in IF req.method = "PUT" THEN {req.url[2]} ELSE ServiceIds}
      \cup SettingsFailures \cup {SettingsNetworkError}

UploadedUrls == {"/uploads/a.png"}

UploadResponses(req) ==
    {SettingsHttp(200, TRUE, Some("Uploaded"),
                  Some([k \in {UrlField(req.closure)} |-> u])) : u \in UploadedUrls}
      \cup SettingsFailures \cup {SettingsNetworkError}

\* the catch blocks of the page: isErrorResponse(err) is "response" in err, and a
\* rejection without an answer is an Error whose message is axios's
SettingsCatch(resp, fallback) ==
    IF resp.kind = "http" THEN OrElse(resp.message, fallback) ELSE "Network Error"

\* fetchSettings from its await on
fetchSettingsResponse(i, resp) ==
    /\ i \in DOMAIN net
    /\ net[i].form = "fetch"
    /\ resp \in FetchResponses
    /\ page' = IF ~net[i].mounted THEN page
               ELSE IF AxiosResolves(resp)
               THEN IF resp.success /\ resp.data # None
                    THEN [page EXCEPT !.settings = resp.data[1], !.loading = FALSE]
                    ELSE [page EXCEPT !.loading = FALSE]
               ELSE [page EXCEPT !.error = SettingsCatch(resp, "Failed to load settings"),
                                 !.loading = FALSE]
    /\ net' = RemoveAt(net, i)
    /\ last' = Answered("fetchSettings",
                        IF AxiosResolves(resp) /\ resp.success THEN "success" ELSE "failed",
                        Envelope(resp))
    /\ UNCHANGED <<screen, signIn, signUp, localStorage, axiosHeaders, header, timers,
                   editor, clipboard>>

\* the form is rendered once loading is false
PageShown == screen = "basicSettings" /\ ~page.loading

SiteNameInputs == {"", "Daily"}

\* handleChange of a text input (every text field of the record is written this way)
PageHandleChange(name, value) ==
    /\ PageShown
    /\ page' = [page EXCEPT !.settings[name] = value]
    /\ last' = Event("BasicSettings.handleChange", name)
    /\ UNCHANGED <<screen, signIn, signUp, localStorage, axiosHeaders, header, net,
                   timers, editor, clipboard>>

\* the checks of handleFileUpload: the message it sets, "" when the file passes
UploadValidation(file, type) ==
    IF file.type \notin validTypes THEN InvalidTypeMessage
    ELSE IF file.size > maxSize(type) THEN TooLargeMessage(type)
    ELSE ""

\* handleFileUpload up to its await, called by FileUploadArea.handleFileSelect
\* (via = "select": the input is disabled while that type uploads) and by handleDrop
\* (via = "drop").  The preview those two read from the file is local to the upload
\* area and read by nothing else.  At most room requests are in flight.
StartUpload(file, type, via, room) ==
    /\ PageShown
    /\ via = "select" => ~page.uploading[type]
    /\ LET msg == UploadValidation(file, type)
       IN  IF msg # ""
           THEN /\ page' = [page EXCEPT !.error = msg]
                /\ last' = Called("handleFileUpload", "rejected",
                                  [file |-> file, type |-> type, via |-> via])
                /\ UNCHANGED net
           ELSE /\ Len(net) < room
                /\ page' = [page EXCEPT !.uploading[type] = TRUE, !.error = ""]
                /\ net' = Append(net, Request("upload", "POST", <<"/basic-settings", type>>,
                                              [field |-> type, file |-> file], type))
                /\ last' = Called("handleFileUpload", "sent",
                                  [file |-> file, type |-> type, via |-> via])
    /\ UNCHANGED <<screen, signIn, signUp, localStorage, axiosHeaders, header, timers,
                   editor, clipboard>>

handleFileUpload(file, type, via) == StartUpload(file, type, via, MaxInFlight)

\* FileUploadArea.handleDrop: the drop area is not disabled while its type uploads,
\* so a drop starts an upload beside the ones in flight
handleDrop(file, type) == StartUpload(file, type, "drop", MaxDrops)

\* handleFileUpload from its await on
handleFileUploadResponse(i, resp) ==
    /\ i \in DOMAIN net
    /\ net[i].form = "upload"
    /\ resp \in UploadResponses(net[i])
    /\ LET type == net[i].closure
           ok == AxiosResolves(resp) /\ resp.success
       IN  /\ IF ok
              THEN /\ Len(timers) < MaxDismissals
                   /\ timers' = Append(timers, [SetTimeout("clearSuccess", SuccessDismissDelay)
                                                  EXCEPT !.mounted = net[i].mounted])
                   /\ page' = IF ~net[i].mounted THEN page
                              ELSE [page EXCEPT !.settings[UrlField(type)] = resp.data[1][UrlField(type)],
                                                !.success = UploadedMessage(type),
                                                !.uploading[type] = FALSE]
              ELSE /\ UNCHANGED timers
                   /\ page' = IF ~net[i].mounted THEN page
                              ELSE IF AxiosResolves(resp)
                              THEN [page EXCEPT !.uploading[type] = FALSE]
                              ELSE [page EXCEPT
                                      !.error = SettingsCatch(resp,
                                                   IF type = "logo" THEN "Failed to upload logo"
                                                   ELSE "Failed to upload favicon"),
                                      !.uploading[type] = FALSE]
           /\ last' = Answered("handleFileUpload", IF ok THEN "success" ELSE "failed",
                               Envelope(resp))
    /\ net' = RemoveAt(net, i)
    /\ UNCHANGED <<screen, signIn, signUp, localStorage, axiosHeaders, header,
                   editor, clipboard>>

\* handleRemoveFile: no component is handed this function
handleRemoveFile(pg, type) == [pg EXCEPT !.settings[UrlField(type)] = ""]

\* the Remove button of an upload area, rendered when the area has a URL: its
\* onClick is the onRemove GeneralSection passes, a function with an empty body
onRemove(type) ==
    /\ PageShown
    /\ page.settings[UrlField(type)] # ""
    /\ page' = page
    /\ last' = Called("FileUploadArea.onRemove", "done", type)
    /\ UNCHANGED <<screen, signIn, signUp, localStorage, axiosHeaders, header, net,
                   timers, editor, clipboard>>

\* the request handleSubmit chooses for the record it holds
SubmitRequest(settings) ==
    IF Truthy(settings.id)
    THEN Request("save", "PUT", <<"/basic-settings", settings.id[1]>>, settings, settings)
    ELSE Request("save", "POST", <<"/basic-settings">>, settings, settings)

\* handleSubmit up to its await
handleSubmit ==
    /\ PageShown
    /\ SubmitEnabled(page.saving)
    /\ Len(net) < MaxSubmits
    /\ page' = [page EXCEPT !.saving = TRUE, !.error = "", !.success = ""]
    /\ net' = Append(net, SubmitRequest(page.settings))
    /\ last' = Event("handleSubmit", "sent")
    /\ UNCHANGED <<screen, signIn, signUp, localStorage, axiosHeaders, header, timers,
                   editor, clipboard>>

\* handleSubmit from its await on; settings is the record of the render that submitted
handleSubmitResponse(i, resp) ==
    /\ i \in DOMAIN net
    /\ net[i].form = "save"
    /\ resp \in SaveResponses(net[i])
    /\ LET settings == net[i].closure
           ok == AxiosResolves(resp) /\ resp.success
       IN  /\ IF ok
              THEN /\ Len(timers) < MaxDismissals
                   /\ timers' = Append(timers, [SetTimeout("clearSuccess", SuccessDismissDelay)
                                                  EXCEPT !.mounted = net[i].mounted])
                   /\ page' = IF ~net[i].mounted THEN page
                              ELSE [page EXCEPT
                                      !.success = "Settings saved successfully!",
                                      !.settings = IF ~Truthy(settings.id) /\ resp.data # None
                                                   THEN resp.data[1] ELSE @,
                                      !.saving = FALSE]
              ELSE /\ UNCHANGED timers
                   /\ page' = IF ~net[i].mounted THEN page
                              ELSE IF AxiosResolves(resp)
                              THEN [page EXCEPT !.saving = FALSE]
                              ELSE [page EXCEPT
                                      !.error = SettingsCatch(resp, "Failed to save settings"),
                                      !.saving = FALSE]
           /\ last' = Answered("handleSubmit", IF ok THEN "success" ELSE "failed",
                               Envelope(resp))
    /\ net' = RemoveAt(net, i)
    /\ UNCHANGED <<screen, signIn, signUp, localStorage, axiosHeaders, header,
                   editor, clipboard>>

----------------------------------------------------------------------------
(* Rich-text editor: RichTextEditor.tsx *)

(* Markup is a sequence of tokens: <<"<", tag>> a start tag, <<"</", tag>> an end   *)
(* tag, <<"#", c>> one character of text.  A DOM subtree is the sequence of its     *)
(* nodes in document order, each with its depth below the root (1 for a child of   *)
(* the root); a text node carries its characters.                                  *)

Elem(tag, depth) == [tag |-> tag, depth |-> depth, data |-> <<>>]
Text(chars, depth) == [tag |-> "#text", depth |-> depth, data |-> chars]
IsElement(n) == n.tag # "#text"

VoidTags == {"br", "hr", "meta", "link"}
\* elements whose content the HTML parser reads as text
RawTextTags == {"script", "style"}

\* the characters a token stands for when it is read as text
TokenChars(t) ==
    IF t[1] = "#" THEN <<t[2]>> ELSE <<t[1], t[2], ">">>

\* a text node is appended, or joined to the text node it follows directly
AppendText(nodes, chars, depth) ==
    IF nodes # <<>> /\ nodes[Len(nodes)].tag = "#text" /\ nodes[Len(nodes)].depth = depth
    THEN [nodes EXCEPT ![Len(nodes)].data = @ \o chars]
    ELSE Append(nodes, Text(chars, depth))

\* the open elements up to, not including, the innermost one with this tag
RECURSIVE PopTo(_, _)
PopTo(stack, tag) ==
    IF stack[Len(stack)] = tag THEN SubSeq(stack, 1, Len(stack) - 1)
    ELSE PopTo(SubSeq(stack, 1, Len(stack) - 1), tag)

\* element.innerHTML = markup: the fragment parser.  An end tag closes the innermost
\* open element of its name and everything inside it, and is ignored when there is
\* none; elements left open are closed at the end.
RECURSIVE ParseFrom(_, _, _, _)
ParseFrom(toks, i, nodes, stack) ==
    IF i > Len(toks) THEN nodes
    ELSE LET t == toks[i]
             d == Len(stack) + 1
             top == IF stack = <<>> THEN "" ELSE stack[Len(stack)]
         IN  IF top \in RawTextTags /\ t # <<"</", top>>
             THEN ParseFrom(toks, i + 1, AppendText(nodes, TokenChars(t), d), stack)
             ELSE IF t[1] = "<"
             THEN ParseFrom(toks, i + 1, Append(nodes, Elem(t[2], d)),
                            IF t[2] \in VoidTags THEN stack ELSE Append(stack, t[2]))
             ELSE IF t[1] = "</"
             THEN ParseFrom(toks, i + 1, nodes,
                            IF \E k \in DOMAIN stack : stack[k] = t[2]
                            THEN PopTo(stack, t[2]) ELSE stack)
             ELSE ParseFrom(toks, i + 1, AppendText(nodes, <<t[2]>>, d), stack)

Parse(toks) == ParseFrom(toks, 1, <<>>, <<>>)

RECURSIVE TextTokens(_)
TextTokens(chars) ==
    IF chars = <<>> THEN <<>> ELSE <<<<"#", Head(chars)>>>> \o TextTokens(Tail(chars))

RECURSIVE CloseTags(_, _)
\* the end tags of the open elements deeper than depth - 1, innermost first
CloseTags(stack, depth) ==
    IF Len(stack) < depth THEN <<>>
    ELSE <<<<"</", stack[Len(stack)]>>>> \o CloseTags(SubSeq(stack, 1, Len(stack) - 1), depth)

\* element.innerHTML read: the serialisation of the nodes
RECURSIVE SerializeFrom(_, _, _)
SerializeFrom(nodes, i, stack) ==
    IF i > Len(nodes) THEN CloseTags(stack, 1)
    ELSE LET n == nodes[i]
             closed == CloseTags(stack, n.depth)
             open == SubSeq(stack, 1, n.depth - 1)
         IN  IF IsElement(n)
             THEN closed \o <<<<"<", n.tag>>>> \o
                  SerializeFrom(nodes, i + 1,
                                IF n.tag \in VoidTags THEN open ELSE Append(open, n.tag))
             ELSE closed \o TextTokens(n.data) \o SerializeFrom(nodes, i + 1, open)

Serialize(nodes) == SerializeFrom(nodes, 1, <<>>)

\* node j is node i or lies inside it
Within(nodes, i, j) == i <= j /\ \A k \in (i + 1)..j : nodes[k].depth > nodes[i].depth

RECURSIVE Keep(_, _, _)
\* the nodes whose index is in the set, in order
Keep(nodes, i, S) ==
    IF i > Len(nodes) THEN <<>>
    ELSE (IF i \in S THEN <<nodes[i]>> ELSE <<>>) \o Keep(nodes, i + 1, S)

\* tempDiv.querySelectorAll("script, style, meta, link").forEach((el) => el.remove())
RemoveUnwanted(nodes) ==
    Keep(nodes, 1,
         {j \in DOMAIN nodes :
            ~\E i \in DOMAIN nodes :
                nodes[i].tag \in {"script", "style", "meta", "link"} /\ Within(nodes, i, j)})

allowedTags ==
    {"p", "br", "b", "strong", "i", "em", "u", "a", "ul", "ol", "li",
     "h1", "h2", "h3", "h4", "h5", "h6", "blockquote", "pre", "code"}

\* nodes are told apart by their place in the tree when the list was taken
WithIds(nodes) ==
    [i \in DOMAIN nodes |->
        [id |-> i, tag |-> nodes[i].tag, depth |-> nodes[i].depth, data |-> nodes[i].data]]
WithoutIds(nodes) ==
    [i \in DOMAIN nodes |->
        [tag |-> nodes[i].tag, depth |-> nodes[i].depth, data |-> nodes[i].data]]

RECURSIVE IdsWhere(_, _, _)
IdsWhere(nodes, i, S) ==
    IF i > Len(nodes) THEN <<>>
    ELSE (IF i \in S THEN <<nodes[i].id>> ELSE <<>>) \o IdsWhere(nodes, i + 1, S)

\* only the children of the root: tempDiv.children
MutantQuerySelectorAllStar(nodes) ==
    IdsWhere(nodes, 1, {i \in DOMAIN nodes : IsElement(nodes[i]) /\ nodes[i].depth = 1})

\* tempDiv.querySelectorAll("*"): every element, in document order, as a static list
querySelectorAllStar(nodes) ==
    IdsWhere(nodes, 1, {i \in DOMAIN nodes : IsElement(nodes[i])})

\* el.replaceWith(...el.childNodes): the children take the place of the element
replaceWithChildren(nodes, id) ==
    IF ~\E i \in DOMAIN nodes : nodes[i].id = id THEN nodes
    ELSE LET i == CHOOSE k \in DOMAIN nodes : nodes[k].id = id
         IN  [k \in 1..(Len(nodes) - 1) |->
                IF k < i THEN nodes[k]
                ELSE IF Within(nodes, i, k + 1)
                     THEN [nodes[k + 1] EXCEPT !.depth = @ - 1]
                     ELSE nodes[k + 1]]

TagOf(nodes, id) == nodes[CHOOSE k \in DOMAIN nodes : nodes[k].id = id].tag

\* list.forEach((el) => { if (!allowedTags.includes(tag)) el.replaceWith(...) })
RECURSIVE ForEachUnwrap(_, _)
ForEachUnwrap(nodes, list) ==
    IF list = <<>> THEN nodes
    ELSE ForEachUnwrap(IF TagOf(nodes, Head(list)) \notin allowedTags
                       THEN replaceWithChildren(nodes, Head(list))
                       ELSE nodes,
                       Tail(list))

\* cleanHtml of handlePaste: the payload parsed, cleaned and read back
CleanHtml(html) ==
    LET tempDiv == WithIds(RemoveUnwanted(Parse(html)))
    IN  Serialize(WithoutIds(ForEachUnwrap(tempDiv, querySelectorAllStar(tempDiv))))

BlockTags ==
    {"p", "div", "ul", "ol", "li", "h1", "h2", "h3", "h4", "h5", "h6", "blockquote", "pre"}

\* the innermost block element around node i, 0 when there is none
BlockOf(nodes, i) ==
    LET anc == {j \in 1..(i - 1) : nodes[j].tag \in BlockTags /\ Within(nodes, j, i)}
    IN  IF anc = {} THEN 0 ELSE CHOOSE j \in anc : \A k \in anc : k <= j

\* element.innerText: the text of the nodes, a line break between blocks
RECURSIVE InnerTextFrom(_, _, _)
InnerTextFrom(nodes, i, prev) ==
    IF i > Len(nodes) THEN <<>>
    ELSE IF IsElement(nodes[i]) THEN InnerTextFrom(nodes, i + 1, prev)
    ELSE (IF prev # 0 /\ BlockOf(nodes, prev) # BlockOf(nodes, i) THEN <<"\n">> ELSE <<>>)
            \o nodes[i].data \o InnerTextFrom(nodes, i + 1, i)
innerText(nodes) == InnerTextFrom(nodes, 1, 0)

\* "nbsp" stands for the character of &nbsp;, which \s matches
IsWhitespace(c) == c \in {" ", "\n", "\t", "nbsp"}

\* text.trim().split(/\s+/).filter((word) => word.length > 0).length
WordsIn(text) ==
    Cardinality({i \in DOMAIN text :
                    ~IsWhitespace(text[i]) /\ (i = 1 \/ IsWhitespace(text[i - 1]))})

\* counts taken from the text without the white space around it
MutantUpdateCounts(ed) ==
    [ed EXCEPT !.wordCount = WordsIn(innerText(ed.dom)),
               !.charCount = Len(innerText(ed.dom))
                               - Cardinality({i \in DOMAIN innerText(ed.dom) :
                                                 IsWhitespace(innerText(ed.dom)[i])})]

\* updateCounts
updateCounts(ed) ==
    [ed EXCEPT !.wordCount = WordsIn(innerText(ed.dom)),
               !.charCount = Len(innerText(ed.dom))]

\* an update that keeps the counts and does not call onChange
MutantUpdateContent(ed) == updateCounts(ed)

\* updateContent: onChange(innerHTML), then updateCounts
updateContent(ed) == updateCounts([ed EXCEPT !.content = Serialize(ed.dom)])

EditorInit ==
    [dom |-> <<>>, hasSelection |-> FALSE, caret |-> 0, selected |-> FALSE,
     content |-> <<>>, wordCount |-> 0, charCount |-> 0,
     showLinkInput |-> FALSE, linkUrl |-> <<>>, linkText |-> <<>>]
NoClipboard == [html |-> <<>>, text |-> <<>>]

\* range.insertNode(fragment) at a caret between two children of the editable region
InsertAt(dom, caret, fragment) ==
    SubSeq(dom, 1, caret) \o fragment \o SubSeq(dom, caret + 1, Len(dom))

\* range.deleteContents(): a selection that is not collapsed covers the text node
\* before the caret, a child of the editable region
deleteContents(ed) ==
    IF ed.selected
    THEN [ed EXCEPT !.dom = RemoveAt(@, ed.caret), !.caret = @ - 1, !.selected = FALSE]
    ELSE ed

\* handlePaste
handlePaste ==
    /\ Len(editor.dom) < MaxDom
    /\ LET html == clipboard.html
           fragment == IF html # <<>> THEN Parse(CleanHtml(html))
                       ELSE IF clipboard.text # <<>> THEN <<Text(clipboard.text, 1)>>
                       ELSE <<>>
           base == deleteContents(editor)
           ed == IF editor.hasSelection
                 THEN [base EXCEPT !.dom = InsertAt(@, base.caret, fragment),
                                   !.caret = @ + Len(fragment)]
                 ELSE editor
       IN  /\ editor' = updateContent(ed)
           /\ last' = [Called("handlePaste", IF html # <<>> THEN "html" ELSE "text",
                              IF editor.hasSelection THEN fragment ELSE <<>>)
                          EXCEPT !.n = last.n]
    /\ UNCHANGED <<screen, signIn, signUp, localStorage, axiosHeaders, header, page,
                   net, timers, clipboard>>

(* ---- link panel and toolbar of the editor ---- *)

\* editorRef.current.focus(): a region without the caret gets it at its start
focus(ed) ==
    IF ed.hasSelection THEN ed
    ELSE [ed EXCEPT !.hasSelection = TRUE, !.caret = 0, !.selected = FALSE]

RECURSIVE TrimStart(_)
TrimStart(s) == IF s # <<>> /\ IsWhitespace(Head(s)) THEN TrimStart(Tail(s)) ELSE s
RECURSIVE TrimEnd(_)
TrimEnd(s) ==
    IF s # <<>> /\ IsWhitespace(s[Len(s)]) THEN TrimEnd(SubSeq(s, 1, Len(s) - 1)) ELSE s
\* String.prototype.trim
trim(s) == TrimEnd(TrimStart(s))

SchemeChars == {"h", "t", "p", "s", "x", "f"}
\* the schemes whose URLs need a host
SpecialSchemes ==
    {<<"h", "t", "t", "p">>, <<"h", "t", "t", "p", "s">>, <<"f", "t", "p">>}

RECURSIVE StripSlashes(_)
StripSlashes(s) == IF s # <<>> /\ Head(s) = "/" THEN StripSlashes(Tail(s)) ELSE s

\* new URL(text).protocol, None when the constructor throws: the text, without the
\* white space around it, is a scheme, a colon and the rest; the rest of a URL of a
\* special scheme is a host after any slashes, the rest of any other is free
URLprotocol(text) ==
    LET t == trim(text)
        colons == {i \in DOMAIN t : t[i] = ":"}
    IN  IF colons = {} THEN None
        ELSE LET c == CHOOSE i \in colons : \A j \in colons : i <= j
                 scheme == SubSeq(t, 1, c - 1)
                 host == StripSlashes(SubSeq(t, c + 1, Len(t)))
             IN  IF scheme = <<>> \/ \E i \in DOMAIN scheme : scheme[i] \notin SchemeChars
                 THEN None
                 ELSE IF scheme \in SpecialSchemes
                         /\ (host = <<>> \/ \E i \in DOMAIN host : IsWhitespace(host[i]))
                 THEN None
                 ELSE Some(Append(scheme, ":"))

\* protocol.startsWith("http")
startsWithHttp(s) == Len(s) >= 4 /\ SubSeq(s, 1, 4) = <<"h", "t", "t", "p">>

\* the two checks of handleAddLink: "" when the URL passes
LinkValidation(linkUrl) ==
    IF trim(linkUrl) = <<>> THEN "Please enter a URL"
    ELSE IF URLprotocol(linkUrl) = None \/ ~startsWithHttp(URLprotocol(linkUrl)[1])
    THEN "Please enter a valid URL starting with http:// or https://"
    ELSE ""

\* the text node before the caret takes the characters, or a new text node does
insertText(ed, chars) ==
    LET d == deleteContents(ed)
    IN  IF d.caret >= 1 /\ d.dom[d.caret].tag = "#text" /\ d.dom[d.caret].depth = 1
        THEN [d EXCEPT !.dom[d.caret].data = @ \o chars]
        ELSE [d EXCEPT !.dom = InsertAt(@, d.caret, <<Text(chars, 1)>>), !.caret = @ + 1]

\* the markup is parsed and takes the place of the selection
insertHTML(ed, markup) ==
    LET d == deleteContents(ed)
    IN  [d EXCEPT !.dom = InsertAt(@, d.caret, Parse(markup)),
                  !.caret = @ + Len(Parse(markup))]

\* the child of the editable region that ends at the caret, put into a new element
wrap(ed, tag) ==
    IF ed.caret = 0 THEN ed
    ELSE LET dom == ed.dom
             s == CHOOSE i \in 1..ed.caret :
                     dom[i].depth = 1 /\ \A k \in (i + 1)..ed.caret : dom[k].depth > 1
         IN  [ed EXCEPT !.dom = [k \in 1..(Len(dom) + 1) |->
                                    IF k < s THEN dom[k]
                                    ELSE IF k = s THEN Elem(tag, 1)
                                    ELSE IF k <= ed.caret + 1
                                         THEN [dom[k - 1] EXCEPT !.depth = @ + 1]
                                         ELSE dom[k - 1]],
                        !.caret = @ + 1, !.selected = FALSE]

\* the child of the editable region that ends at the caret gives way to its children
unwrap(ed) ==
    IF ed.caret = 0 THEN ed
    ELSE LET dom == ed.dom
             s == CHOOSE i \in 1..ed.caret :
                     dom[i].depth = 1 /\ \A k \in (i + 1)..ed.caret : dom[k].depth > 1
         IN  IF dom[s].tag \notin {"b", "i", "u", "strike", "a"} THEN ed
             ELSE [ed EXCEPT !.dom = WithoutIds(replaceWithChildren(WithIds(dom), s)),
                             !.caret = @ - 1, !.selected = FALSE]

InlineCommands ==
    [bold |-> "b", italic |-> "i", underline |-> "u", strikethrough |-> "strike"]
BlockCommands ==
    [insertUnorderedList |-> "ul", insertOrderedList |-> "ol", indent |-> "blockquote"]

\* document.execCommand(command, false, value) of the host.  Nodes carry no
\* attributes, so a command that only sets a style leaves them as they are; what
\* the native history gives back on undo and redo is the host's choice.
execCommand(ed, command, value, host) ==
    IF command \in DOMAIN InlineCommands
    THEN IF ed.selected THEN wrap(ed, InlineCommands[command]) ELSE ed
    ELSE IF command \in DOMAIN BlockCommands THEN wrap(ed, BlockCommands[command])
    ELSE IF command = "formatBlock" THEN wrap(ed, value)
    ELSE IF command = "insertHTML" THEN insertHTML(ed, value)
    ELSE IF command = "insertText" THEN insertText(ed, value)
    ELSE IF command = "insertHorizontalRule" THEN insertHTML(ed, <<<<"<", "hr">>>>)
    ELSE IF command \in {"removeFormat", "unlink"} THEN unwrap(ed)
    ELSE IF command \in {"undo", "redo"} /\ host = "revert"
    THEN [ed EXCEPT !.dom = <<>>, !.caret = 0, !.selected = FALSE]
    ELSE ed

RECURSIVE Repeat(_, _)
Repeat(s, n) == IF n = 0 THEN <<>> ELSE s \o Repeat(s, n - 1)

\* tableHTML of insertTable(rows, cols)
tableHTML(rows, cols) ==
    <<<<"<", "table">>>>
      \o Repeat(<<<<"<", "tr">>>>
                  \o Repeat(<<<<"<", "td">>>> \o TextTokens(<<"C", "e", "l", "l">>)
                              \o <<<<"</", "td">>>>, cols)
                  \o <<<<"</", "tr">>>>, rows)
      \o <<<<"</", "table">>, <<"<", "br">>>>

Buttons ==
    {"bold", "italic", "underline", "strikethrough", "h1", "alignCenter",
     "insertUnorderedList", "insertOrderedList", "indent", "outdent",
     "fontSize", "color", "highlight", "table", "codeBlock", "quote",
     "horizontalRule", "emoji", "clearFormatting", "undo", "redo"}

\* the handler a button of the toolbar calls
HandlerOf(button) ==
    CASE button \in {"bold", "italic", "underline", "strikethrough",
                     "insertUnorderedList", "insertOrderedList", "indent", "outdent"}
            -> "handleFormat"
      [] button = "h1" -> "handleHeading"
      [] button = "alignCenter" -> "handleAlign"
      [] button = "fontSize" -> "handleFontSize"
      [] button = "color" -> "handleColorChange"
      [] button = "highlight" -> "handleHighlight"
      [] button = "table" -> "insertTable"
      [] button = "codeBlock" -> "insertCodeBlock"
      [] button = "quote" -> "insertQuote"
      [] button = "horizontalRule" -> "insertHorizontalRule"
      [] button = "emoji" -> "insertEmoji"
      [] button = "clearFormatting" -> "handleClearFormatting"
      [] button = "undo" -> "handleUndo"
      [] button = "redo" -> "handleRedo"

\* the commands the handler of a button executes, each with its value
CommandsOf(button) ==
    CASE HandlerOf(button) = "handleFormat" -> <<<<button, <<>>>>>>
      [] button = "h1" -> <<<<"formatBlock", "h1">>>>
      [] button = "alignCenter" -> <<<<"justifyCenter", <<>>>>>>
      [] button = "fontSize" -> <<<<"fontSize", <<>>>>>>
      [] button = "color" -> <<<<"foreColor", <<>>>>>>
      [] button = "highlight" -> <<<<"backColor", <<>>>>>>
      [] button = "table" -> <<<<"insertHTML", tableHTML(2, 2)>>>>
      [] button = "codeBlock" ->
            <<<<"insertHTML", <<<<"<", "pre">>, <<"<", "code">>, <<"#", "c">>,
                                <<"</", "code">>, <<"</", "pre">>, <<"<", "br">>>>>>>>
      [] button = "quote" ->
            <<<<"insertHTML", <<<<"<", "blockquote">>, <<"#", "q">>,
                                <<"</", "blockquote">>, <<"<", "br">>>>>>>>
      [] button = "horizontalRule" -> <<<<"insertHorizontalRule", <<>>>>>>
      [] button = "emoji" -> <<<<"insertText", <<"e">>>>>>
      [] button = "clearFormatting" -> <<<<"removeFormat", <<>>>>, <<"unlink", <<>>>>>>
      [] button = "undo" -> <<<<"undo", <<>>>>>>
      [] button = "redo" -> <<<<"redo", <<>>>>>>

RECURSIVE Execute(_, _, _)
Execute(ed, commands, host) ==
    IF commands = <<>> THEN ed
    ELSE Execute(execCommand(ed, Head(commands)[1], Head(commands)[2], host),
                 Tail(commands), host)

\* what the host's history can do with a button: undo and redo either find a
\* change to take back or find none
HostOutcomes(button) ==
    IF button \in {"undo", "redo"} THEN {"keep", "revert"} ELSE {"keep"}

\* a step of an editing session: it changes the editor alone
EditorStep(e) ==
    /\ last.n < MaxOps
    /\ last' = [e EXCEPT !.n = last.n + 1]
    /\ UNCHANGED <<screen, signIn, signUp, localStorage, axiosHeaders, header, page,
                   net, timers, clipboard>>

\* a handler of the toolbar: focus, its commands, updateContent
ToolbarAction(button, host) ==
    /\ LET ed == Execute(focus(editor), CommandsOf(button), host)
       IN  /\ \/ Len(ed.dom) <= Len(editor.dom)
              \/ Len(editor.dom) = 0
              \/ Len(ed.dom) <= MaxDom
           /\ editor' = updateContent(ed)
    /\ EditorStep(Event("toolbar", "done"))

\* the user puts the caret between two children of the editable region, or selects
\* the text node before it
Select(caret, selected) ==
    /\ caret \in 0..Len(editor.dom)
    /\ caret < Len(editor.dom) => editor.dom[caret + 1].depth = 1
    /\ selected => /\ caret >= 1
                   /\ editor.dom[caret].tag = "#text"
                   /\ editor.dom[caret].depth = 1
    /\ editor' = [editor EXCEPT !.hasSelection = TRUE, !.caret = caret,
                                !.selected = selected]
    /\ EditorStep(Event("select", "done"))

\* onInput={updateContent}: the host has put a typed character at the caret
onInput(c) ==
    /\ editor.hasSelection
    /\ editor.charCount < MaxDom
    /\ editor' = updateContent(insertText(editor, <<c>>))
    /\ EditorStep(Event("onInput", "done"))

\* useEffect(..., [value]): the caller hands a new value to the editor
valueEffect(value) ==
    /\ value # editor.content
    /\ editor' = IF value # <<>> /\ Serialize(editor.dom) # value
                 THEN updateCounts([editor EXCEPT !.content = value,
                                                  !.dom = Parse(value),
                                                  !.hasSelection = FALSE,
                                                  !.caret = 0,
                                                  !.selected = FALSE])
                 ELSE [editor EXCEPT !.content = value]
    /\ EditorStep(Event("valueEffect", "done"))

\* the link button of the toolbar: setShowLinkInput(!showLinkInput)
ToggleLinkInput ==
    /\ editor' = [editor EXCEPT !.showLinkInput = ~@]
    /\ EditorStep(Event("toggleLinkInput", "done"))

\* the two inputs of the link panel
SetLinkUrl(v) ==
    /\ editor.showLinkInput
    /\ editor' = [editor EXCEPT !.linkUrl = v]
    /\ EditorStep(Event("setLinkUrl", "done"))

SetLinkText(v) ==
    /\ editor.showLinkInput
    /\ editor' = [editor EXCEPT !.linkText = v]
    /\ EditorStep(Event("setLinkText", "done"))

\* the Cancel button of the link panel
CancelLink ==
    /\ editor.showLinkInput
    /\ editor' = [editor EXCEPT !.showLinkInput = FALSE, !.linkUrl = <<>>,
                                !.linkText = <<>>]
    /\ EditorStep(Event("cancelLink", "done"))

\* a || b of two strings
OrText(a, b) == IF a # <<>> THEN a ELSE b

handleAddLink ==
    /\ editor.showLinkInput
    /\ LET msg == LinkValidation(editor.linkUrl)
           ed == focus(editor)
           selectedText == IF ed.selected THEN ed.dom[ed.caret].data ELSE <<>>
           displayText == OrText(selectedText, OrText(editor.linkText, editor.linkUrl))
           d == deleteContents(ed)
           inserted ==
              IF ed.selected
              THEN [d EXCEPT !.dom = InsertAt(@, d.caret,
                                              <<Elem("a", 1), Text(displayText, 2),
                                                Text(<<" ">>, 1)>>),
                             !.caret = @ + 2]
              ELSE insertHTML(ed, <<<<"<", "a">>>> \o TextTokens(displayText)
                                    \o <<<<"</", "a">>, <<"#", "nbsp">>>>)
       IN  IF msg # ""
           THEN /\ editor' = editor
                /\ EditorStep(Called("handleAddLink", "alert", msg))
           ELSE /\ Len(editor.dom) < MaxDom
                /\ editor' = [updateContent(inserted) EXCEPT !.showLinkInput = FALSE,
                                                             !.linkUrl = <<>>,
                                                             !.linkText = <<>>]
                /\ EditorStep(Called("handleAddLink", "inserted", displayText))

----------------------------------------------------------------------------
(* The client as a whole *)

\* a session a previous visit left in localStorage
PersistedSessions ==
    {<<>>} \cup
    {SaveSession(<<>>, TokenOf(u), u) : u \in Users}

\* the state after the page at screen s has loaded, with the forms as given
LoadedWith(s, si, su, pg) ==
    /\ screen = s
    /\ signIn = si
    /\ signUp = su
    /\ localStorage \in PersistedSessions
    /\ axiosHeaders = <<>>
    /\ header = LoginStatusEffect(HeaderInit, localStorage)
    /\ page = pg
    /\ net = IF s = "basicSettings" /\ pg.loading THEN <<fetchSettings>> ELSE <<>>
    /\ timers = <<>>
    /\ editor = EditorInit
    /\ clipboard = NoClipboard
    /\ last = Event("load", s)

Loaded(s) == LoadedWith(s, SignInInit, SignUpInit, PageInit)

SignInNext(emails, passwords) ==
    \/ \E v \in emails : SignInHandleChange("email", v)
    \/ \E v \in passwords : SignInHandleChange("password", v)
    \/ handleLogin
    \/ \E i \in DOMAIN net, resp \in LoginResponses : handleLoginResponse(i, resp)

SignUpNext ==
    \/ \E v \in NameInputs : SignUpHandleChange("name", v)
    \/ \E v \in EmailInputs : SignUpHandleChange("email", v)
    \/ \E v \in PasswordInputs : SignUpHandleChange("password", v)
    \/ \E v \in ConfirmInputs : SignUpHandleChange("confirmPassword", v)
    \/ handleRegistration
    \/ \E i \in DOMAIN net, resp \in RegistrationResponses :
          handleRegistrationResponse(i, resp)

HeaderNext ==
    \/ HeaderMount
    \/ ToggleUserMenu
    \/ ToggleMobileMenu
    \/ handleLogout

PageNext ==
    \/ \E i \in DOMAIN net, resp \in FetchResponses : fetchSettingsResponse(i, resp)
    \/ \E v \in SiteNameInputs : PageHandleChange("site_name", v)
    \/ \E f \in PickedFiles, t \in UploadTypes, via \in {"select"} :
          handleFileUpload(f, t, via)
    \/ \E i \in DOMAIN net :
          /\ i \in DOMAIN net
          /\ net[i].form = "upload"
          /\ \E resp \in UploadResponses(net[i]) : handleFileUploadResponse(i, resp)
    \/ handleSubmit
    \/ \E i \in DOMAIN net :
          /\ i \in DOMAIN net
          /\ net[i].form = "save"
          /\ \E resp \in SaveResponses(net[i]) : handleSubmitResponse(i, resp)

RedirectTimerNext == \E i \in 1..MaxTimers : RedirectTimerFires(i)
SuccessTimerNext == \E i \in 1..MaxTimers : SuccessTimerFires(i)

(* The session: the sign-in page, the header and the storage they share *)
SessionInit == Loaded("home")
SessionNext ==
    \/ \E s \in {"home", "signIn"} : Navigate(s)
    \/ SignInNext({ValidEmail, NotAnEmail}, {GoodPassword})
    \/ HeaderNext
    \/ RedirectTimerNext
SpecSession == SessionInit /\ [][SessionNext]_vars

(* The three forms, each on the page that shows it *)
FormsInit == \E s \in {"signIn", "signUp", "basicSettings"} : Loaded(s)
FormsNext ==
    \/ SignInNext(EmailInputs, PasswordInputs)
    \/ SignUpNext
    \/ PageNext
    \/ RedirectTimerNext
    \/ SuccessTimerNext
SpecForms == FormsInit /\ [][FormsNext]_vars

(* The validation of the two account forms, over every short email text *)
Emails == StringsUpTo(EmailAlphabet, MaxEmailLen) \cup {ValidEmail, NotAnEmail}
\* the page of either form, filled in by the user
ValidationInit ==
    \/ \E e \in Emails, pw \in PasswordInputs :
          LoadedWith("signIn",
                     [SignInInit EXCEPT !.formData = [email |-> e, password |-> pw]],
                     SignUpInit, PageInit)
    \/ \E e \in Emails, pw \in PasswordInputs, cf \in ConfirmInputs, n \in NameInputs :
          LoadedWith("signUp", SignInInit,
                     [SignUpInit EXCEPT !.formData = [name |-> n, email |-> e,
                                                     password |-> pw, confirmPassword |-> cf,
                                                     role |-> "user"]],
                     PageInit)
ValidationNext ==
    \/ handleLogin
    \/ \E i \in DOMAIN net, resp \in LoginResponses : handleLoginResponse(i, resp)
    \/ handleRegistration
    \/ \E i \in DOMAIN net, resp \in RegistrationResponses :
          handleRegistrationResponse(i, resp)
    \/ RedirectTimerNext
SpecValidation == ValidationInit /\ [][ValidationNext]_vars

(* The uploads of the settings page, over every file type and size *)
\* the settings page once the service has answered that it holds no record yet
UploadInit ==
    LoadedWith("basicSettings", SignInInit, SignUpInit, [PageInit EXCEPT !.loading = FALSE])
UploadNext ==
    \/ \E f \in Files, t \in UploadTypes, via \in {"select", "drop"} :
          handleFileUpload(f, t, via)
    \/ \E i \in DOMAIN net :
          /\ i \in DOMAIN net
          /\ net[i].form = "upload"
          /\ \E resp \in UploadResponses(net[i]) : handleFileUploadResponse(i, resp)
    \/ SuccessTimerNext
SpecUpload == UploadInit /\ [][UploadNext]_vars

(* The mount of the header, over every content of the storage *)
StoredSessions ==
    {<<>>} \cup {SaveSession(<<>>, TokenOf(u), u) : u \in Users}
      \cup {setItem(<<>>, "token", TokenOf(u)) : u \in Users}
      \cup {setItem(<<>>, "user", JSONstringify(u)) : u \in Users}
MountInit ==
    /\ screen = "home"
    /\ signIn = SignInInit
    /\ signUp = SignUpInit
    /\ localStorage \in StoredSessions
    /\ axiosHeaders = <<>>
    /\ header = HeaderInit
    /\ page = PageInit
    /\ net = <<>>
    /\ timers = <<>>
    /\ editor = EditorInit
    /\ clipboard = NoClipboard
    /\ last = Event("load", "home")
MountNext ==
    \/ HeaderNext
    \/ \E s \in {"home", "signIn"} : Navigate(s)
    \/ SignInNext({ValidEmail}, {GoodPassword})
    \/ RedirectTimerNext
SpecMount == MountInit /\ [][MountNext]_vars

(* The link panel of the editor, over URLs of every kind *)
LinkUrlInputs ==
    {<<>>, <<" ">>, <<"h">>,
     <<"h", "t", "t", "p", ":">>,
     <<"h", "t", "t", "p", ":", "/", "/", "h">>,
     <<"h", "t", "t", "p", "s", ":", "/", "/", "h">>,
     <<"h", "t", "t", "p", "x", ":", "/", "/", "h">>,
     <<"f", "t", "p", ":", "/", "/", "h">>,
     <<"x", ":", "h">>}
LinkTextInputs == {<<>>, <<"t">>}

\* the editor of the settings page, its region empty or holding one text
EditorLoaded(dom, clip) ==
    /\ screen = "basicSettings"
    /\ signIn = SignInInit
    /\ signUp = SignUpInit
    /\ localStorage = <<>>
    /\ axiosHeaders = <<>>
    /\ header = HeaderInit
    /\ page = [PageInit EXCEPT !.loading = FALSE]
    /\ net = <<>>
    /\ timers = <<>>
    /\ editor = updateContent([EditorInit EXCEPT !.dom = dom])
    /\ clipboard = clip
    /\ last = Event("load", "basicSettings")

LinkNext(urls, texts) ==
    \/ ToggleLinkInput
    \/ \E v \in urls : SetLinkUrl(v)
    \/ \E v \in texts : SetLinkText(v)
    \/ CancelLink
    \/ handleAddLink

LinkInit == \E dom \in {<<>>, <<Text(<<"w">>, 1)>>} : EditorLoaded(dom, NoClipboard)
LinkSpecNext ==
    \/ LinkNext(LinkUrlInputs, LinkTextInputs)
    \/ \E c \in 0..MaxDom, sel \in BOOLEAN : Select(c, sel)
    \/ \E c \in {"x"} : onInput(c)
SpecLink == LinkInit /\ [][LinkSpecNext]_vars

(* The editor under the toolbar, typing, the link panel and its caller *)
\* the values the caller hands in: none, a text, markup left open, a list
ValueInputs ==
    {<<>>, <<<<"<", "b">>, <<"#", "v">>>>,
     <<<<"<", "p">>, <<"#", "v">>, <<"</", "p">>, <<"<", "p">>, <<"#", " ">>>>}
\* the region empty, a payload on the clipboard
EditorSpecInit ==
    /\ EditorLoaded(<<>>, [html |-> <<<<"<", "div">>, <<"#", "d">>>>, text |-> <<"d">>])
EditorSpecNext ==
    \/ \E b \in Buttons : \E host \in HostOutcomes(b) : ToolbarAction(b, host)
    \/ \E c \in 0..MaxDom, sel \in BOOLEAN : Select(c, sel)
    \/ \E c \in {"x", " "} : onInput(c)
    \/ \E v \in ValueInputs : valueEffect(v)
    \/ \E v \in {<<"h", "t", "t", "p", ":", "/", "/", "h">>} : SetLinkUrl(v)
    \/ ToggleLinkInput
    \/ handleAddLink
SpecEditor == EditorSpecInit /\ [][EditorSpecNext]_vars

(* Saving the settings, from a page whose service holds no record yet *)
SaveInit ==
    LoadedWith("basicSettings", SignInInit, SignUpInit, [PageInit EXCEPT !.loading = FALSE])
SaveNext ==
    \/ \E v \in SiteNameInputs : PageHandleChange("site_name", v)
    \/ handleSubmit
    \/ \E i \in DOMAIN net :
          /\ i \in DOMAIN net
          /\ net[i].form = "save"
          /\ \E resp \in SaveResponses(net[i]) : handleSubmitResponse(i, resp)
    \/ SuccessTimerNext
SpecSave == SaveInit /\ [][SaveNext]_vars

(* The upload areas: the picker, drops and the Remove button, with one file that
   passes the checks *)
DroppedFile == [type |-> "image/png", size |-> maxSize("favicon")]
DropInit == UploadInit /\ localStorage = <<>>
DropNext ==
    \/ \E t \in UploadTypes : handleFileUpload(DroppedFile, t, "select")
    \/ \E t \in UploadTypes : handleDrop(DroppedFile, t)
    \/ \E t \in UploadTypes : onRemove(t)
    \/ \E i \in DOMAIN net :
          /\ i \in DOMAIN net
          /\ net[i].form = "upload"
          /\ \E resp \in UploadResponses(net[i]) : handleFileUploadResponse(i, resp)
    \/ SuccessTimerNext
SpecDrop == DropInit /\ [][DropNext]_vars

(* The busy flags: each form filled in so that its submission is accepted, every
   request answered in the end *)
BusyInit ==
    \/ LoadedWith("signIn",
                  [SignInInit EXCEPT !.formData = [email |-> ValidEmail,
                                                  password |-> GoodPassword]],
                  SignUpInit, PageInit)
    \/ LoadedWith("signUp", SignInInit,
                  [SignUpInit EXCEPT !.formData = [name |-> "Ann", email |-> ValidEmail,
                                                  password |-> GoodPassword,
                                                  confirmPassword |-> GoodPassword,
                                                  role |-> "user"]],
                  PageInit)
    \/ Loaded("basicSettings")
LoginAnswered ==
    \E i \in DOMAIN net, resp \in LoginResponses : handleLoginResponse(i, resp)
RegistrationAnswered ==
    \E i \in DOMAIN net, resp \in RegistrationResponses : handleRegistrationResponse(i, resp)
FetchAnswered ==
    \E i \in DOMAIN net, resp \in FetchResponses : fetchSettingsResponse(i, resp)
SaveAnswered ==
    \E i \in DOMAIN net :
        /\ i \in DOMAIN net
        /\ net[i].form = "save"
        /\ \E resp \in SaveResponses(net[i]) : handleSubmitResponse(i, resp)
BusyNext ==
    \/ handleLogin
    \/ LoginAnswered
    \/ handleRegistration
    \/ RegistrationAnswered
    \/ FetchAnswered
    \/ handleSubmit
    \/ SaveAnswered
    \/ RedirectTimerNext
    \/ SuccessTimerNext
\* every request is answered in the end
BusyFairness ==
    /\ WF_vars(LoginAnswered)
    /\ WF_vars(RegistrationAnswered)
    /\ WF_vars(FetchAnswered)
    /\ WF_vars(SaveAnswered)
SpecBusy == BusyInit /\ [][BusyNext]_vars /\ BusyFairness

(* Pasting into the editor, over every short payload *)
PasteTags == {"div", "b", "script"}
PasteTokens ==
    {<<"<", t>> : t \in PasteTags} \cup {<<"</", t>> : t \in PasteTags} \cup {<<"#", "x">>}
Payloads == StringsUpTo(PasteTokens, MaxTokens)
PasteInit ==
    \E html \in Payloads, sel \in BOOLEAN, dom \in {<<>>, <<Text(<<"t">>, 1)>>} :
        /\ screen = "basicSettings"
        /\ signIn = SignInInit
        /\ signUp = SignUpInit
        /\ localStorage = <<>>
        /\ axiosHeaders = <<>>
        /\ header = HeaderInit
        /\ page = [PageInit EXCEPT !.loading = FALSE]
        /\ net = <<>>
        /\ timers = <<>>
        /\ editor = updateContent([EditorInit EXCEPT !.dom = dom, !.hasSelection = sel,
                                                     !.caret = Len(dom)])
        /\ clipboard = [html |-> html, text |-> <<"y", " ", "z">>]
        /\ last = Event("load", "basicSettings")
PasteNext == handlePaste
SpecPaste == PasteInit /\ [][PasteNext]_vars

----------------------------------------------------------------------------
(* Properties of the session *)

LoginSucceeded(e) == e.op = "handleLogin" /\ e.outcome = "success"

\* C1: after handleLogin has processed a successful answer carrying token T and user U,
\* localStorage holds token = T and user = JSON.stringify(U) and the default
\* Authorization header is `Bearer T`; the header changes only when another login
\* succeeds, and every request issued carries the default headers of that moment.
C1_LoginPersistsSession ==
    /\ [](LoginSucceeded(last) =>
            /\ getItem(localStorage, "token") = last.resp[1].token
            /\ getItem(localStorage, "user") = Some(JSONstringify(last.resp[1].user[1]))
            /\ getItem(axiosHeaders, "Authorization") = Some(<<"Bearer ", last.resp[1].token[1]>>))
    /\ [][/\ axiosHeaders' # axiosHeaders => LoginSucceeded(last')
          /\ Len(net') > Len(net) => net'[Len(net')].headers = axiosHeaders]_vars

\* a request in flight that was issued after a login carries that login's token
C1_Witness ==
    /\ getItem(localStorage, "token") # None
    /\ \E i \in DOMAIN net :
          getItem(net[i].headers, "Authorization") = Some(<<"Bearer ", localStorage["token"]>>)

LoggedOutHeader == ~header.isLoggedIn /\ header.user = None /\ ~header.showUserMenu
NoSession == DOMAIN localStorage \cap {"token", "user"} = {}

\* C2: after handleLogout, localStorage holds neither token nor user and the header is
\* logged out with its user menu closed; from a logged-out header over an empty
\* storage every step, a fresh mount included, leaves the header logged out, and the
\* storage stays empty unless the step is a successful login.
C2_LogoutClearsSession ==
    /\ [](last.op = "handleLogout" => NoSession /\ LoggedOutHeader)
    /\ [][(NoSession /\ LoggedOutHeader) =>
            /\ LoggedOutHeader'
            /\ NoSession' \/ LoginSucceeded(last')]_vars

\* the header is mounted afresh after a login of this visit was logged out
C2_Witness ==
    /\ last.op = "Header.mount"
    /\ NoSession
    /\ LoggedOutHeader
    /\ getItem(axiosHeaders, "Authorization") # None

----------------------------------------------------------------------------
(* Properties of the settings page *)

Submitted(e) == e.op = "handleSubmit" /\ e.outcome = "sent"

\* C3: every submission issues one request; it is POST /basic-settings when the
\* record the form holds has no identifier and PUT /basic-settings/{id} when it has
\* the identifier id, whatever number id is.
C3_SubmitCreatesOrUpdates ==
    [][Submitted(last') =>
         /\ Len(net') = Len(net) + 1
         /\ LET r == net'[Len(net')]
                id == page.settings.id
            IN  /\ r.form = "save"
                /\ id = None => r.method = "POST" /\ r.url = <<"/basic-settings">>
                /\ id # None => r.method = "PUT" /\ r.url = <<"/basic-settings", id[1]>>]_vars

AllowList ==
    {"image/jpeg", "image/jpg", "image/png", "image/gif", "image/webp",
     "image/svg+xml", "image/x-icon"}

UploadCalled(e) == e.op = "handleFileUpload" /\ e.arg # None

\* C4: handleFileUpload, for either field and from the picker or a drop, answers a
\* file whose MIME type is outside the allow-list by setting an error message; it
\* issues no request and changes neither the configuration record nor the uploading
\* flags.
C4_WrongTypeRejected ==
    [][(UploadCalled(last') /\ last'.arg[1].file.type \notin AllowList) =>
         /\ last'.outcome = "rejected"
         /\ page'.error # ""
         /\ net' = net
         /\ page'.settings = page.settings
         /\ page'.uploading = page.uploading]_vars

\* a PDF was dropped on the logo area while a logo upload was in flight
C4_Witness ==
    /\ UploadCalled(last)
    /\ last.outcome = "rejected"
    /\ last.arg[1] = [file |-> [type |-> "application/pdf", size |-> maxSize("favicon")],
                      type |-> "logo", via |-> "drop"]
    /\ page.uploading.logo
    /\ page.error # ""

LogoCeiling == 2097152
FaviconCeiling == 1048576
Ceiling(type) == IF type = "logo" THEN LogoCeiling ELSE FaviconCeiling

\* C5: for a file of an allowed type, handleFileUpload sets an error message and
\* issues no request when the size exceeds the ceiling of the field (2 MiB for the
\* logo, 1 MiB for the favicon), and sends the file when the size is the ceiling
\* exactly; the logo ceiling is the larger one.
C5_OversizeRejected ==
    /\ [](maxSize("logo") > maxSize("favicon"))
    /\ [][(UploadCalled(last') /\ last'.arg[1].file.type \in AllowList) =>
            LET a == last'.arg[1]
            IN  /\ a.file.size > Ceiling(a.type) =>
                      /\ last'.outcome = "rejected"
                      /\ page'.error # ""
                      /\ net' = net
                /\ a.file.size = Ceiling(a.type) =>
                      /\ last'.outcome = "sent"
                      /\ Len(net') = Len(net) + 1
                      /\ net'[Len(net')].body = [field |-> a.type, file |-> a.file]]_vars

\* a favicon one byte over its ceiling was rejected, and the error is the size message
C5_Witness ==
    /\ UploadCalled(last)
    /\ last.outcome = "rejected"
    /\ last.arg[1].type = "favicon"
    /\ last.arg[1].file = [type |-> "image/png", size |-> FaviconCeiling + 1]
    /\ page.error = "File size too large. Maximum 1MB allowed."

----------------------------------------------------------------------------
(* Properties of the account forms *)

HasAt(s) == \E i \in DOMAIN s : s[i] = "@"
LastAt(s) == CHOOSE i \in DOMAIN s : s[i] = "@" /\ \A j \in DOMAIN s : s[j] = "@" => j <= i
\* no "@", or no "." after the "@"
Malformed(s) == ~HasAt(s) \/ \A j \in DOMAIN s : j > LastAt(s) => s[j] # "."

SubmitOf(e, op) == e.op = op /\ e.resp = None

\* C6: submitting the login form or the registration form with an email that has no
\* "@" or no "." after the "@" sets a validation message and issues no request,
\* whatever the password is.
C6_MalformedEmailBlocked ==
    [][/\ (SubmitOf(last', "handleLogin") /\ Malformed(signIn.formData.email)) =>
            /\ last'.outcome = "rejected"
            /\ signIn'.error # ""
            /\ net' = net
       /\ (SubmitOf(last', "handleRegistration") /\ Malformed(signUp.formData.email)) =>
            /\ last'.outcome = "rejected"
            /\ signUp'.error # ""
            /\ net' = net]_vars

\* the login form was submitted with "not-an-email" and a password
C6_Witness ==
    /\ SubmitOf(last, "handleLogin")
    /\ last.outcome = "rejected"
    /\ signIn.formData = [email |-> NotAnEmail, password |-> GoodPassword]
    /\ signIn.error = "Please enter a valid email address"
    /\ net = <<>>

\* C7: submitting the registration form with a password that differs from its
\* confirmation issues no request and leaves an error message displayed, whatever
\* the other fields hold.
C7_MismatchBlocked ==
    [][(/\ SubmitOf(last', "handleRegistration")
        /\ signUp.formData.password # signUp.formData.confirmPassword) =>
            /\ last'.outcome = "rejected"
            /\ signUp'.error # ""
            /\ net' = net]_vars

\* a registration that fails on the comparison of the passwords alone
C7_Witness ==
    /\ SubmitOf(last, "handleRegistration")
    /\ last.outcome = "rejected"
    /\ signUp.formData.email = ValidEmail
    /\ signUp.formData.password = GoodPassword
    /\ signUp.formData.confirmPassword = OtherPassword
    /\ signUp.error = "Passwords do not match"

\* the error message of the form whose handler e is the continuation of
ErrorShownBy(e) ==
    IF e.op = "handleLogin" THEN signIn.error
    ELSE IF e.op = "handleRegistration" THEN signUp.error
    ELSE page.error

ScreenOf(e) ==
    IF e.op = "handleLogin" THEN "signIn"
    ELSE IF e.op = "handleRegistration" THEN "signUp"
    ELSE "basicSettings"

\* C9: when the service answers a login, a registration, a save or an upload with
\* success = false, the form that issued the request shows the message of the answer
\* as its error message, whatever the HTTP status of the answer.
C9_ServiceFailureShown ==
    (/\ last.op \in {"handleLogin", "handleRegistration", "handleSubmit", "handleFileUpload"}
     /\ last.resp # None
     /\ screen = ScreenOf(last))
        => LET resp == last.resp[1]
           IN  (resp.kind = "http" /\ ~resp.success /\ resp.message # None)
                   => ErrorShownBy(last) = resp.message[1]

NotSucceeded(e) ==
    /\ e.op \in {"handleLogin", "handleRegistration", "handleSubmit"}
    /\ e.outcome \in {"rejected", "failed"}

\* C10: a login, a registration or a save that is rejected by the validation, fails
\* in transport or is answered with a failure leaves every field of every form as it
\* was.
C10_FailureKeepsForm ==
    [][NotSucceeded(last') =>
         /\ signIn'.formData = signIn.formData
         /\ signUp'.formData = signUp.formData
         /\ page'.settings = page.settings]_vars

\* a login was answered with a failure and the form still holds what was typed
C10_Witness ==
    /\ last.op = "handleLogin"
    /\ last.outcome = "failed"
    /\ last.resp[1].kind = "http"
    /\ signIn.formData = [email |-> ValidEmail, password |-> GoodPassword]

----------------------------------------------------------------------------
(* Properties of the editor *)

AllowList8 ==
    {"p", "br", "b", "strong", "i", "em", "u", "a", "ul", "ol", "li",
     "h1", "h2", "h3", "h4", "h5", "h6", "blockquote", "pre", "code"}

\* the nodes of a parsed payload that are permitted: text and allowed elements that
\* do not lie inside a script, style, meta or link element
Permitted(nodes) ==
    {j \in DOMAIN nodes :
        /\ nodes[j].tag \in AllowList8 \cup {"#text"}
        /\ ~\E i \in DOMAIN nodes :
              nodes[i].tag \in {"script", "style", "meta", "link"} /\ Within(nodes, i, j)}

\* the tags and characters of the nodes, in document order
RECURSIVE Flat(_)
Flat(nodes) ==
    IF nodes = <<>> THEN <<>>
    ELSE (IF IsElement(Head(nodes)) THEN <<<<"<", Head(nodes).tag>>>>
          ELSE TextTokens(Head(nodes).data)) \o Flat(Tail(nodes))

\* the number of permitted elements around node j
DepthAmong(nodes, S, j) ==
    1 + Cardinality({i \in S : i < j /\ IsElement(nodes[i]) /\ Within(nodes, i, j)})

PastedHtml(e) == e.op = "handlePaste" /\ e.outcome = "html"

\* C8: the markup handlePaste inserts for an HTML payload holds no element outside
\* the allow-list, at any depth; it holds the permitted content of the payload, in
\* document order, every disallowed element having given way to what it contained.
C8_PasteKeepsAllowedOnly ==
    [][(PastedHtml(last') /\ editor.hasSelection) =>
         LET src == Parse(clipboard.html)
             keep == Permitted(src)
             ins == last'.arg[1]
         IN  /\ \A k \in DOMAIN ins : ins[k].tag \in AllowList8 \cup {"#text"}
             /\ Flat(ins) = Flat(Keep(src, 1, keep))
             /\ \A k \in DOMAIN ins :
                   IsElement(ins[k]) =>
                      \E j \in keep :
                         /\ src[j].tag = ins[k].tag
                         /\ DepthAmong(src, keep, j) = ins[k].depth
             /\ editor'.dom = InsertAt(editor.dom, editor.caret, ins)
             /\ editor'.content = Serialize(editor'.dom)]_vars

\* an allowed element that lay inside two nested disallowed ones was inserted
C8_Witness ==
    /\ PastedHtml(last)
    /\ clipboard.html = <<<<"<", "div">>, <<"<", "div">>, <<"<", "b">>, <<"#", "x">>>>
    /\ last.arg[1] = <<Elem("b", 1), Text(<<"x">>, 2)>>
    /\ editor.dom = <<Text(<<"t">>, 1), Elem("b", 1), Text(<<"x">>, 2)>>

----------------------------------------------------------------------------
(* Properties of the account forms, continued *)

\* C11: no registration request and no login request in flight carries a password
\* shorter than 6 characters.
C11_ShortPasswordNeverSent ==
    \A i \in DOMAIN net :
        net[i].form \in {"login", "registration"} => Len(net[i].body.password) >= 6

SubmissionForms == {"login", "registration", "save"}

FormOf(op) ==
    IF op = "handleLogin" THEN "login"
    ELSE IF op = "handleRegistration" THEN "registration"
    ELSE "save"

\* the submission requests of the mounted forms that are in flight
SubmissionsInFlight(n) ==
    {i \in DOMAIN n : n[i].form \in SubmissionForms /\ n[i].mounted}

AcceptedSubmission(e) ==
    e.op \in {"handleLogin", "handleRegistration", "handleSubmit"} /\ e.outcome = "sent"

C13_RegistrationKeepsSession ==
    [][last'.op = "handleRegistration" =>
         /\ localStorage' = localStorage
         /\ axiosHeaders' = axiosHeaders]_vars

\* a registration the service accepted, with no session persisted
C13_Witness ==
    /\ last.op = "handleRegistration"
    /\ last.outcome = "success"
    /\ "token" \notin DOMAIN localStorage
    /\ "user" \notin DOMAIN localStorage
    /\ "Authorization" \notin DOMAIN axiosHeaders

RedirectPending(ts, i) == i \in DOMAIN ts /\ ts[i].fn = "routerPushHome"

----------------------------------------------------------------------------
(* Properties of the editor, continued *)

\* a URL that is not blank, parses and has the scheme http or https
HttpUrl(url) ==
    /\ trim(url) # <<>>
    /\ URLprotocol(url) \in {Some(<<"h", "t", "t", "p", ":">>),
                            Some(<<"h", "t", "t", "p", "s", ":">>)}

\* C15: handleAddLink inserts a link only for a URL that is not blank, parses and
\* has the scheme http or https; for every other URL it leaves the region, the
\* content of the caller and the link panel, open with its two inputs, as they were;
\* an insertion closes the panel, empties both inputs and calls onChange.
C15_LinkOnlyForHttpUrl ==
    [][last'.op = "handleAddLink" =>
         /\ last'.outcome = "inserted" =>
               /\ HttpUrl(editor.linkUrl)
               /\ ~editor'.showLinkInput
               /\ editor'.linkUrl = <<>>
               /\ editor'.linkText = <<>>
               /\ editor'.content = Serialize(editor'.dom)
         /\ ~HttpUrl(editor.linkUrl) => editor' = editor]_vars

----------------------------------------------------------------------------
(* Properties of the header, continued *)

LoggedInAs(role) ==
    header.isLoggedIn /\ header.user # None /\ header.user[1].role = role

\* what an open account menu has to present
Expected ==
    IF LoggedInAs("admin")
    THEN {"Profile", "Saved News", "Reading List", "Dashboard", "Logout"}
    ELSE IF header.isLoggedIn
    THEN {"Profile", "Saved News", "Reading List", "Logout"}
    ELSE {}

\* C16: the open user menu and the open mobile menu present the Dashboard link
\* exactly when the header is logged in with a user of role admin, and the three
\* account links and the logout exactly when it is logged in: five entries for
\* an admin, four for a user, none for a logged-out header.
C16_MenusFollowRole ==
    /\ (header.showUserMenu \/ ~header.isLoggedIn) => DesktopMenu(header) = Expected
    /\ header.isOpen => MobileMenu(header) = Expected
    /\ LoggedInAs("user") /\ header.isOpen => Cardinality(MobileMenu(header)) = 4
    /\ LoggedInAs("admin") /\ header.isOpen => Cardinality(MobileMenu(header)) = 5

\* a logged-in user of role user with both menus open
C16_Witness ==
    /\ LoggedInAs("user")
    /\ header.showUserMenu
    /\ header.isOpen
    /\ "Dashboard" \notin DesktopMenu(header) \cup MobileMenu(header)
    /\ "Logout" \in DesktopMenu(header) \cap MobileMenu(header)

FormattingDone(e) ==
    \/ e.op = "toolbar"
    \/ e.op = "handleAddLink" /\ e.outcome = "inserted"
C18_FormattingReachesCaller ==
    [][FormattingDone(last') => editor'.content = Serialize(editor'.dom)]_vars
\* a rule inserted from the toolbar is in the region and in the caller's content
C18_Witness ==
    /\ last.op = "toolbar"
    /\ \E i \in DOMAIN editor.dom : editor.dom[i].tag = "hr"
    /\ \E i \in DOMAIN editor.content : editor.content[i] = <<"<", "hr">>

\* C19: in every state of the editor wordCount is the number of maximal runs of
\* characters other than white space in the rendered text of the editable region,
\* and charCount is the length of that text
RunEnds(text) ==
    {i \in DOMAIN text :
        /\ text[i] \notin {" ", "\n", "\t", "nbsp"}
        /\ i = Len(text) \/ text[i + 1] \in {" ", "\n", "\t", "nbsp"}}
DismissalPending(pending) ==
    \E j \in DOMAIN pending : pending[j].fn = "clearSuccess" /\ pending[j].mounted
C20_DismissalKeepsLaterMessage ==
    [][(/\ last'.op = "timer"
        /\ last'.outcome = "clearSuccess"
        /\ page.success # ""
        /\ page'.success = "")
          => ~DismissalPending(timers')]_vars

----------------------------------------------------------------------------
(* Properties of the session over its whole life *)

\* C21: in every state localStorage holds either neither the token nor the user
\* record, or both of them, the two of one login answer (the service issues "tokA"
\* with the admin's record and "tokB" with the other user's)
C21_TokenAndUserTogether ==
    \/ DOMAIN localStorage \cap {"token", "user"} = {}
    \/ /\ {"token", "user"} \subseteq DOMAIN localStorage
       /\ \E u \in Users :
             /\ localStorage["user"] =
                   <<<<"id", u.id>>, <<"name", u.name>>, <<"email", u.email>>,
                     <<"role", u.role>>>>
             /\ localStorage["token"] = IF u.role = "admin" THEN "tokA" ELSE "tokB"
\* a login has replaced the session the page was loaded with: the header still shows
\* the admin, the storage holds the other user's token and record
C21_Witness ==
    /\ last.op = "handleLogin"
    /\ last.outcome = "success"
    /\ header.user # <<>>
    /\ header.user[1].role = "admin"
    /\ "token" \in DOMAIN localStorage
    /\ localStorage["token"] = "tokB"
    /\ "user" \in DOMAIN localStorage

\* C23: a request issued while the storage holds no session, so after a logout and
\* before the next successful login, carries no Authorization header
C23_NoTokenAfterLogout ==
    [][(/\ Len(net') > Len(net)
        /\ DOMAIN localStorage \cap {"token", "user"} = {})
          => "Authorization" \notin DOMAIN net'[Len(net')].headers]_vars

----------------------------------------------------------------------------
(* Properties of saving the settings *)

\* C22: on a page that was loaded without a record, so that the form holds an
\* identifier only once a create has succeeded, every submission made while the
\* form holds an identifier issues PUT /basic-settings/{id} for that identifier, and
\* the form, once it holds an identifier, keeps it: no second create is issued
C22_UpdatesAfterCreate ==
    [][/\ (last'.op = "handleSubmit" /\ last'.outcome = "sent" /\ page.settings.id # <<>>) =>
             /\ Len(net') = Len(net) + 1
             /\ net'[Len(net')].method = "PUT"
             /\ net'[Len(net')].url = <<"/basic-settings", page.settings.id[1]>>
       /\ page.settings.id # <<>> => page'.settings.id = page.settings.id]_vars

\* C24: when the answer to a save is processed, a site name the user has edited since
\* the submission (it differs from the one that was sent) is still the one the form
\* holds, after a create as after an update
C24_EditSurvivesSave ==
    [][\A i \in DOMAIN net :
          (/\ net[i].form = "save"
           /\ net[i].mounted
           /\ last'.op = "handleSubmit"
           /\ last'.outcome \in {"success", "failed"}
           /\ Len(net') = Len(net) - 1
           /\ page.settings.site_name # net[i].body.site_name)
             => page'.settings.site_name = page.settings.site_name]_vars

\* C25: for either asset type, uploading[type] is true exactly while an upload
\* request of that type is in flight
C25_FlagFollowsUploads ==
    \A t \in {"logo", "favicon"} :
        page.uploading[t] <=>
            \E i \in DOMAIN net :
                net[i].form = "upload" /\ net[i].closure = t /\ net[i].mounted

----------------------------------------------------------------------------
(* Properties of the messages and the busy flags of the forms *)

\* C26: on the login form, the registration form and the settings form the error
\* message and the success message are never both set
C26_OneMessageAtATime ==
    /\ signIn.error = "" \/ signIn.success = ""
    /\ signUp.error = "" \/ signUp.success = ""
    /\ page.error = "" \/ page.success = ""

\* C27: the handling of the answer to a login, a registration, the fetch of the
\* settings or a save, whatever the answer is, leaves the busy flag of its form
\* false; and, every request being answered in the end, a flag that is true becomes
\* false again
AnswerHandled(e, op) == e.op = op /\ e.outcome \in {"success", "failed"}
C27_BusyFlagsReset ==
    /\ [][/\ (AnswerHandled(last', "handleLogin") /\ screen' = "signIn") => ~signIn'.loading
          /\ (AnswerHandled(last', "handleRegistration") /\ screen' = "signUp")
                => ~signUp'.loading
          /\ (AnswerHandled(last', "fetchSettings") /\ screen' = "basicSettings")
                => ~page'.loading
          /\ (AnswerHandled(last', "handleSubmit") /\ screen' = "basicSettings")
                => ~page'.saving]_vars
    /\ (screen = "signIn" /\ signIn.loading) ~> ~signIn.loading
    /\ (screen = "signUp" /\ signUp.loading) ~> ~signUp.loading
    /\ (screen = "basicSettings" /\ page.loading) ~> ~page.loading
    /\ (screen = "basicSettings" /\ page.saving) ~> ~page.saving
\* a save that failed in transport has left the form enabled with its error
C27_Witness ==
    /\ last.op = "handleSubmit"
    /\ last.outcome = "failed"
    /\ ~page.saving
    /\ page.error = "Network Error"

\* C28: the registration form holds the role "user" in every state, whatever was
\* typed into its fields and however often it was submitted, and every registration
\* request carries that role
C28_RoleIsUser ==
    /\ signUp.formData.role = "user"
    /\ \A i \in DOMAIN net :
          net[i].form = "registration" => net[i].body.role = "user"
\* a registration in flight for the name typed into the form
C28_Witness ==
    /\ last.op = "handleRegistration"
    /\ last.outcome = "sent"
    /\ \E i \in DOMAIN net : net[i].form = "registration" /\ net[i].body.role = "user"
    /\ signUp.formData.name = "Ann"

----------------------------------------------------------------------------
(* Properties of the editor's value and of the Remove control *)

\* C29: when the caller hands the editor a value that differs from the markup of the
\* editable region, the region becomes that value parsed, the empty value included,
\* and the counts are taken from it; when the value is the region's markup the region
\* is left as it is
C29_ValueReachesRegion ==
    [][last'.op = "valueEffect" =>
         IF editor'.content # Serialize(editor.dom)
         THEN /\ editor'.dom = Parse(editor'.content)
              /\ editor'.charCount = Len(innerText(editor'.dom))
         ELSE editor'.dom = editor.dom]_vars

\* C30: the Remove button of the logo or favicon area empties the URL of its asset
\* in the record the form holds and leaves every other field of the record as it was
C30_RemoveEmptiesUrl ==
    [][(last'.op = "FileUploadArea.onRemove" /\ last'.arg # <<>>) =>
         LET field == IF last'.arg[1] = "logo" THEN "logo_url" ELSE "favicon_url"
         IN  /\ page'.settings[field] = ""
             /\ \A k \in DOMAIN page.settings \ {field} :
                   page'.settings[k] = page.settings[k]]_vars

====
